---- MODULE Spec2Model ----
(***************************************************************************)
(* A model of the adaptive concurrency and batch-dispatch layer:           *)
(*   - GpuAdaptiveManager (src/project/src/gpu_manager.py): the permit     *)
(*     pool, the capacity state, run_with_protection and _shrink_capacity; *)
(*   - CNAIEmbeddings (src/project/src/cnai_embedding.py): the batch       *)
(*     split, the per-batch retry loop and the ordered reassembly;         *)
(*   - main / process_single_case (src/project/main.py): the fan-out of    *)
(*     the questions over a thread pool and the write-back by index.       *)
(* Each component has its own specification (SpecGpu, SpecEmbed, Spec);    *)
(* the variables of the other components stay at their idle values.        *)
(***************************************************************************)
EXTENDS Integers, Sequences, FiniteSets, TLC

\* ------------------------------------------------------------------ bounds
NumThreads == 2
MaxCapacity == 3
MaxStep == 2
MaxInvoked == 2
MaxDocs == 3
MaxBatchSize == 2
MaxConcurrency == 2
MaxQuestions == 3
MaxWorkers == 3
MaxMessages == 2

Threads == 1..NumThreads

Max(a, b) == IF a >= b THEN a ELSE b
Min(a, b) == IF a <= b THEN a ELSE b

VARIABLES
    \* GpuAdaptiveManager
    enabled,            \* self.enabled
    cuda_available,     \* torch.cuda.is_available()
    max_capacity,       \* self.max_capacity
    min_capacity,       \* self.min_capacity
    step_size,          \* self.step_size
    current_capacity,   \* self.current_capacity
    semaphore,          \* value of self.semaphore: the permits available
    lock,               \* the threads that own self.lock (none or one)
    withdrawn,          \* permits taken by _shrink_capacity and never released
    shrinks,            \* calls of _shrink_capacity that got the lock (saturating)
    pc,                 \* position of each thread in run_with_protection
    todo,               \* iterations left of the withdrawal loop, per thread
    outcome,            \* how the latest func() of the current call ended
    invoked,            \* func() invocations of the current call (saturating)
    \* CNAIEmbeddings.embed_documents
    texts,              \* the argument: the documents, in input order
    batch_size,         \* self.batch_size
    concurrency,        \* self.concurrency: max_workers of the executor
    epc,                \* position of embed_documents
    batches,            \* the list of batches
    batch_results,      \* the pre-sized list of the batches' vectors
    bpc,                \* position of each batch's _call_api_single_batch
    attempt,            \* per batch: iterations of the retry loop begun
    resp,               \* per batch: the kind of the answer that had 'data'
    fut,                \* per batch: the vectors its future holds
    yielded,            \* per batch: as_completed has handed out its future
    inverted,           \* a future was handed out before that of an earlier batch
    final_embeddings,   \* the flattened list that is returned
    \* main
    tasks,              \* the list of (index, q_text)
    max_workers,        \* concurrency: max_workers of the executor
    df_out,             \* the output column of the DataFrame, by index
    mpc,                \* position of main
    tpc,                \* position of each submitted process_single_case
    handled,            \* per task: how retrieve + generate ended
    future,             \* per task: what its future holds
    collected,          \* per task: as_completed has handed out its future
    results_buffer,     \* the dict, as its (index, answer) items in insertion order
    wb                  \* items of results_buffer written back so far

gpuVars == <<enabled, cuda_available, max_capacity, min_capacity, step_size,
             current_capacity, semaphore, lock, withdrawn, shrinks, pc, todo,
             outcome, invoked>>

embedVars == <<texts, batch_size, concurrency, epc, batches, batch_results,
               bpc, attempt, resp, fut, yielded, inverted,
               final_embeddings>>

mainVars == <<tasks, max_workers, df_out, mpc, tpc, handled, future, collected,
              results_buffer, wb>>

vars == <<gpuVars, embedVars, mainVars>>

\* What the steps of one component leave alone: the other components.
notGpu == <<embedVars, mainVars>>
notEmbed == <<gpuVars, mainVars>>
notMain == <<gpuVars, embedVars>>

\* ------------------------------------------------------ GpuAdaptiveManager

\* How a call of func(*args, **kwargs) can end.
Outcomes == {"ok", "oom", "other"}

\* The positions at which a thread holds a permit of self.semaphore.
HoldingPcs == {"run", "shrink_lock", "shrink_check", "shrink_loop", "sleep",
               "finally_continue", "finally_return", "finally_raise"}

Held == Cardinality({t \in Threads : pc[t] \in HoldingPcs})

\* __init__: the capacity state and the permit pool as configured.
InitGpu ==
    /\ enabled \in BOOLEAN
    /\ cuda_available \in BOOLEAN
    /\ max_capacity \in 1..MaxCapacity
    /\ min_capacity \in 1..max_capacity
    /\ step_size \in 1..MaxStep
    /\ current_capacity = max_capacity
    /\ semaphore = max_capacity
    /\ lock = {}
    /\ withdrawn = 0
    /\ shrinks = 0
    /\ pc = [t \in Threads |-> "idle"]
    /\ todo = [t \in Threads |-> 0]
    /\ outcome = [t \in Threads |-> "none"]
    /\ invoked = [t \in Threads |-> 0]

\* new_capacity = max(self.min_capacity, self.current_capacity - self.step_size)
\* (variants: without the floor; one permit at a time)
NewCapacityNoFloor(cur) == cur - step_size
NewCapacityOneStep(cur) == Max(min_capacity, cur - 1)
NewCapacity(cur) == Max(min_capacity, cur - step_size)

\* if not self.enabled or not torch.cuda.is_available()
\* (variant: and for or)
UnprotectedIfBoth == ~enabled /\ ~cuda_available
Unprotected == ~enabled \/ ~cuda_available

\* run_with_protection is entered.
Call(t) ==
    /\ pc[t] = "idle"
    /\ pc' = [pc EXCEPT ![t] = IF Unprotected THEN "direct" ELSE "acquire"]
    /\ UNCHANGED <<enabled, cuda_available, max_capacity, min_capacity,
                   step_size, shrinks,
                   current_capacity, semaphore, lock, withdrawn, todo,
                   outcome, invoked>>
    /\ UNCHANGED notGpu

\* return func(*args, **kwargs) with no permit and no retry.
Direct(t) ==
    /\ pc[t] = "direct"
    /\ \E o \in Outcomes :
        /\ outcome' = [outcome EXCEPT ![t] = o]
        /\ invoked' = [invoked EXCEPT ![t] = Min(@ + 1, MaxInvoked)]
        /\ pc' = [pc EXCEPT ![t] = "done"]
    /\ UNCHANGED <<enabled, cuda_available, max_capacity, min_capacity,
                   step_size, shrinks,
                   current_capacity, semaphore, lock, withdrawn, todo>>
    /\ UNCHANGED notGpu

\* self.semaphore.acquire(): blocks until a permit is available.
\* (variant: the attempt goes on without a permit)
AcquireNonBlocking(t) ==
    /\ pc[t] = "acquire"
    /\ pc' = [pc EXCEPT ![t] = "run"]
    /\ UNCHANGED <<enabled, cuda_available, max_capacity, min_capacity,
                   step_size, shrinks, semaphore,
                   current_capacity, lock, withdrawn, todo, outcome, invoked>>
    /\ UNCHANGED notGpu
Acquire(t) ==
    /\ pc[t] = "acquire"
    /\ semaphore > 0
    /\ semaphore' = semaphore - 1
    /\ pc' = [pc EXCEPT ![t] = "run"]
    /\ UNCHANGED <<enabled, cuda_available, max_capacity, min_capacity,
                   step_size, shrinks,
                   current_capacity, lock, withdrawn, todo, outcome, invoked>>
    /\ UNCHANGED notGpu

\* Where the try statement goes after func() ended with outcome o.
\* (variants: the out-of-memory error handed to the caller; every error retried)
AfterFuncOomRaises(o) ==
    CASE o = "ok" -> "finally_return"
      [] o = "oom" -> "finally_raise"
      [] OTHER -> "finally_raise"
AfterFuncRetryAll(o) ==
    CASE o = "ok" -> "finally_return"
      [] o = "oom" -> "shrink_lock"
      [] OTHER -> "shrink_lock"
AfterFunc(o) ==
    CASE o = "ok" -> "finally_return"
      [] o = "oom" -> "shrink_lock"
      [] OTHER -> "finally_raise"

\* func(*args, **kwargs) under a permit.
RunFunc(t) ==
    /\ pc[t] = "run"
    /\ \E o \in Outcomes :
        /\ outcome' = [outcome EXCEPT ![t] = o]
        /\ invoked' = [invoked EXCEPT ![t] = Min(@ + 1, MaxInvoked)]
        /\ pc' = [pc EXCEPT ![t] = AfterFunc(o)]
    /\ UNCHANGED <<enabled, cuda_available, max_capacity, min_capacity,
                   step_size, shrinks,
                   current_capacity, semaphore, lock, withdrawn, todo>>
    /\ UNCHANGED notGpu

\* _shrink_capacity: with self.lock (blocks until the lock is free).
\* (variant: the block is entered whoever owns the lock)
ShrinkLockNoWait(t) ==
    /\ pc[t] = "shrink_lock"
    /\ lock' = lock \cup {t}
    /\ pc' = [pc EXCEPT ![t] = "shrink_check"]
    /\ UNCHANGED <<enabled, cuda_available, max_capacity, min_capacity,
                   step_size, shrinks,
                   current_capacity, semaphore, withdrawn, todo, outcome,
                   invoked>>
    /\ UNCHANGED notGpu
ShrinkLock(t) ==
    /\ pc[t] = "shrink_lock"
    /\ lock = {}
    /\ lock' = {t}
    /\ pc' = [pc EXCEPT ![t] = "shrink_check"]
    /\ UNCHANGED <<enabled, cuda_available, max_capacity, min_capacity,
                   step_size, shrinks,
                   current_capacity, semaphore, withdrawn, todo, outcome,
                   invoked>>
    /\ UNCHANGED notGpu

\* reduce_amount = self.current_capacity - new_capacity
\* (variant: always step_size)
ReduceAmountFullStep(cur) == step_size
ReduceAmount(cur) == cur - NewCapacity(cur)

\* _shrink_capacity: the floor test, then the new capacity.
\* (variant: the floor test against zero)
ShrinkCheckFloorZero(t) ==
    /\ pc[t] = "shrink_check"
    /\ shrinks' = Min(shrinks + 1, max_capacity)
    /\ IF current_capacity <= 0
       THEN /\ lock' = {}
            /\ pc' = [pc EXCEPT ![t] = "sleep"]
            /\ UNCHANGED <<current_capacity, todo>>
       ELSE /\ current_capacity' = Max(0, current_capacity - step_size)
            /\ todo' = [todo EXCEPT ![t] =
                            current_capacity - Max(0, current_capacity - step_size)]
            /\ pc' = [pc EXCEPT ![t] = "shrink_loop"]
            /\ UNCHANGED lock
    /\ UNCHANGED <<enabled, cuda_available, max_capacity, min_capacity,
                   step_size, semaphore,
                   withdrawn, outcome, invoked>>
    /\ UNCHANGED notGpu
ShrinkCheck(t) ==
    /\ pc[t] = "shrink_check"
    /\ shrinks' = Min(shrinks + 1, max_capacity)
    /\ IF current_capacity <= min_capacity
       THEN /\ lock' = {}
            /\ pc' = [pc EXCEPT ![t] = "sleep"]
            /\ UNCHANGED <<current_capacity, todo>>
       ELSE /\ current_capacity' = NewCapacity(current_capacity)
            /\ todo' = [todo EXCEPT ![t] = ReduceAmount(current_capacity)]
            /\ pc' = [pc EXCEPT ![t] = "shrink_loop"]
            /\ UNCHANGED lock
    /\ UNCHANGED <<enabled, cuda_available, max_capacity, min_capacity,
                   step_size, semaphore,
                   withdrawn, outcome, invoked>>
    /\ UNCHANGED notGpu

\* self.semaphore.acquire(blocking=False): the permits left after the attempt,
\* and whether the call comes back when s permits are available.
\* (variant: a blocking acquire)
TryAcquire(s) == IF s > 0 THEN s - 1 ELSE s
TryAcquireWaits(s) == s > 0
TryAcquireComesBack(s) == TRUE

\* _shrink_capacity: one iteration of the withdrawal loop.
ShrinkWithdraw(t) ==
    /\ pc[t] = "shrink_loop"
    /\ todo[t] > 0
    /\ TryAcquireComesBack(semaphore)
    /\ semaphore' = TryAcquire(semaphore)
    /\ withdrawn' = withdrawn + (semaphore - TryAcquire(semaphore))
    /\ todo' = [todo EXCEPT ![t] = @ - 1]
    /\ UNCHANGED <<enabled, cuda_available, max_capacity, min_capacity,
                   step_size, shrinks,
                   current_capacity, lock, pc, outcome, invoked>>
    /\ UNCHANGED notGpu

\* _shrink_capacity: the loop is over, the with block releases the lock.
ShrinkExit(t) ==
    /\ pc[t] = "shrink_loop"
    /\ todo[t] = 0
    /\ lock' = {}
    /\ pc' = [pc EXCEPT ![t] = "sleep"]
    /\ UNCHANGED <<enabled, cuda_available, max_capacity, min_capacity,
                   step_size, shrinks,
                   current_capacity, semaphore, withdrawn, todo, outcome,
                   invoked>>
    /\ UNCHANGED notGpu

\* time.sleep(self.cool_down); continue
\* (variant: the permit is given back before the cool-down)
SleepWithoutPermit(t) ==
    /\ pc[t] = "sleep"
    /\ semaphore' = semaphore + 1
    /\ pc' = [pc EXCEPT ![t] = "acquire"]
    /\ UNCHANGED <<enabled, cuda_available, max_capacity, min_capacity,
                   step_size, shrinks,
                   current_capacity, lock, withdrawn, todo,
                   outcome, invoked>>
    /\ UNCHANGED notGpu
Sleep(t) ==
    /\ pc[t] = "sleep"
    /\ pc' = [pc EXCEPT ![t] = "finally_continue"]
    /\ UNCHANGED <<enabled, cuda_available, max_capacity, min_capacity,
                   step_size, shrinks,
                   current_capacity, semaphore, lock, withdrawn, todo,
                   outcome, invoked>>
    /\ UNCHANGED notGpu

\* self.semaphore.release() of the finally clause: the permits afterwards.
\* (variant: no release)
ReleaseSkipped(s) == s
Release(s) == s + 1

\* finally, reached by continue: release, then the next iteration of the loop.
FinallyContinue(t) ==
    /\ pc[t] = "finally_continue"
    /\ semaphore' = Release(semaphore)
    /\ pc' = [pc EXCEPT ![t] = "acquire"]
    /\ UNCHANGED <<enabled, cuda_available, max_capacity, min_capacity,
                   step_size, shrinks,
                   current_capacity, lock, withdrawn, todo, outcome, invoked>>
    /\ UNCHANGED notGpu

\* finally, reached by return: release, then the result goes to the caller.
FinallyReturn(t) ==
    /\ pc[t] = "finally_return"
    /\ semaphore' = Release(semaphore)
    /\ pc' = [pc EXCEPT ![t] = "done"]
    /\ UNCHANGED <<enabled, cuda_available, max_capacity, min_capacity,
                   step_size, shrinks,
                   current_capacity, lock, withdrawn, todo, outcome, invoked>>
    /\ UNCHANGED notGpu

\* finally, reached by raise e: release, then the error goes to the caller.
FinallyRaise(t) ==
    /\ pc[t] = "finally_raise"
    /\ semaphore' = Release(semaphore)
    /\ pc' = [pc EXCEPT ![t] = "done"]
    /\ UNCHANGED <<enabled, cuda_available, max_capacity, min_capacity,
                   step_size, shrinks,
                   current_capacity, lock, withdrawn, todo, outcome, invoked>>
    /\ UNCHANGED notGpu

\* The caller goes on to its next call of run_with_protection.
NextCall(t) ==
    /\ pc[t] = "done"
    /\ pc' = [pc EXCEPT ![t] = "idle"]
    /\ outcome' = [outcome EXCEPT ![t] = "none"]
    /\ invoked' = [invoked EXCEPT ![t] = 0]
    /\ UNCHANGED <<enabled, cuda_available, max_capacity, min_capacity,
                   step_size, shrinks,
                   current_capacity, semaphore, lock, withdrawn, todo>>
    /\ UNCHANGED notGpu

\* ---------------------------------------------------------- CNAIEmbeddings

\* max_retries = 3
max_retries == 3

\* dim = len(embeddings[0]) if embeddings else 1024
DefaultDim == 1024

\* The length of the vectors the producer answers with.
ApiDim == 2

\* None, and a list of vectors, as an entry of batch_results.
NoResult == [isNone |-> TRUE, vectors |-> <<>>]
Vectors(v) == [isNone |-> FALSE, vectors |-> v]

\* The vector the producer computes for the text x (x = 0: for no text of the
\* batch), and [0.0] * dim.
F(x) == [dim |-> ApiDim, of |-> x, zero |-> FALSE]
ZeroVector(d) == [dim |-> d, of |-> 0, zero |-> TRUE]

\* batches = [texts[i : i + batch_size] for i in range(0, total_docs, batch_size)]
\* (variant: each slice one text too long)
NumBatches(n, bs) == (n + bs - 1) \div bs
SplitOffByOne(ts, bs) ==
    [k \in 1..NumBatches(Len(ts), bs) |->
        SubSeq(ts, (k - 1) * bs + 1, Min(k * bs + 1, Len(ts)))]
Split(ts, bs) ==
    [k \in 1..NumBatches(Len(ts), bs) |->
        SubSeq(ts, (k - 1) * bs + 1, Min(k * bs, Len(ts)))]

\* The 'data' field of an answer to the batch b: one item for each index of S,
\* in ascending or in descending order of the index. The item of index j holds
\* the vector of the text at position j of the batch; an index past the batch
\* holds a vector of no text of the batch.
Item(b, j) == [index |-> j, embedding |-> IF j < Len(b) THEN F(b[j + 1]) ELSE F(0)]

RECURSIVE Ascending(_, _)
Ascending(b, S) ==
    IF S = {} THEN <<>>
    ELSE LET j == CHOOSE x \in S : \A y \in S : x <= y
         IN <<Item(b, j)>> \o Ascending(b, S \ {j})

Reverse(q) == [k \in 1..Len(q) |-> q[Len(q) + 1 - k]]

Data(b, S, descending) ==
    IF descending THEN Reverse(Ascending(b, S)) ELSE Ascending(b, S)

\* sorted(result_json['data'], key=lambda x: x['index'])
RECURSIVE Insert(_, _)
Insert(q, it) ==
    IF q = <<>> THEN <<it>>
    ELSE IF it.index < q[1].index THEN <<it>> \o q
         ELSE <<q[1]>> \o Insert(Tail(q), it)

RECURSIVE SortedByIndex(_)
SortedByIndex(q) ==
    IF q = <<>> THEN <<>>
    ELSE Insert(SortedByIndex(SubSeq(q, 1, Len(q) - 1)), q[Len(q)])

\* embeddings = [item['embedding'] for item in data]
Embeddings(data) == [k \in 1..Len(data) |-> data[k].embedding]

\* The length check: zero vectors are appended while there are fewer vectors
\* than texts.
\* (variant: the vectors as received)
PaddedNot(e, n) == e
Padded(e, n) ==
    IF Len(e) # n
    THEN LET dim == IF Len(e) > 0 THEN e[1].dim ELSE DefaultDim
         IN IF Len(e) < n
            THEN e \o [k \in 1..(n - Len(e)) |-> ZeroVector(dim)]
            ELSE e
    ELSE e

\* What _call_api_single_batch returns for the batch b on the answer 'data'.
BatchVectors(b, data) == Padded(Embeddings(SortedByIndex(data)), Len(b))

\* The index sets of the answers to a batch of n texts: the first k items of
\* the aligned answer (k = n: all of them), or all of them and one more.
Answers(n) == {0..(k - 1) : k \in 0..(n + 1)}

\* What kind of answer the items of the index set S are for a batch of n texts.
Kind(S, n) ==
    IF S = 0..(n - 1) THEN "aligned"
    ELSE IF n \in S THEN "long"
    ELSE "short"

BatchIds == 1..Len(batches)

Running == {i \in BatchIds : bpc[i] = "running"}

\* for attempt in range(max_retries): is there another iteration
\* (variant: one iteration fewer)
MoreAttemptsOneLess(a) == a < max_retries - 1
MoreAttempts(a) == a < max_retries

\* The state before embed_documents is called.
InitEmbed ==
    /\ \E n \in 0..MaxDocs : texts = [k \in 1..n |-> k]
    /\ batch_size \in 1..MaxBatchSize
    /\ concurrency \in 1..MaxConcurrency
    /\ epc = "start"
    /\ batches = <<>>
    /\ batch_results = <<>>
    /\ bpc = <<>>
    /\ attempt = <<>>
    /\ resp = <<>>
    /\ fut = <<>>
    /\ yielded = <<>>
    /\ inverted = FALSE
    /\ final_embeddings = <<>>

\* The embedding component while another component is checked.
IdleEmbed ==
    /\ texts = <<>>
    /\ batch_size = 1
    /\ concurrency = 1
    /\ epc = "start"
    /\ batches = <<>>
    /\ batch_results = <<>>
    /\ bpc = <<>>
    /\ attempt = <<>>
    /\ resp = <<>>
    /\ fut = <<>>
    /\ yielded = <<>>
    /\ inverted = FALSE
    /\ final_embeddings = <<>>

\* embed_documents: the split, the pre-sized result list, and the submission
\* of every batch to the executor.
Submit ==
    /\ epc = "start"
    /\ batches' = Split(texts, batch_size)
    /\ batch_results' = [k \in 1..Len(batches') |-> NoResult]
    /\ bpc' = [k \in 1..Len(batches') |-> "pending"]
    /\ attempt' = [k \in 1..Len(batches') |-> 0]
    /\ resp' = [k \in 1..Len(batches') |-> "none"]
    /\ fut' = [k \in 1..Len(batches') |-> <<>>]
    /\ yielded' = [k \in 1..Len(batches') |-> FALSE]
    /\ epc' = "collect"
    /\ UNCHANGED <<texts, batch_size, concurrency, final_embeddings>>
    /\ UNCHANGED <<inverted, notEmbed>>

\* May a worker of the executor take a task: fewer than max_workers are busy.
\* (variant: no limit)
WorkerFreeUnbounded(busy) == TRUE
WorkerFree(busy) == busy < concurrency

\* A worker of the executor takes the oldest pending batch.
StartBatch(i) ==
    /\ bpc[i] = "pending"
    /\ \A j \in BatchIds : j < i => bpc[j] # "pending"
    /\ WorkerFree(Cardinality(Running))
    /\ bpc' = [bpc EXCEPT ![i] = "running"]
    /\ UNCHANGED <<texts, batch_size, concurrency, epc, batches, batch_results,
                   attempt, resp, fut, yielded, final_embeddings>>
    /\ UNCHANGED <<inverted, notEmbed>>

\* _call_api_single_batch: an attempt that ends in the except clause (the
\* request, the status check, the decoding or the items raised), or whose
\* answer has no 'data' field: the loop goes on.
AttemptFails(i) ==
    /\ bpc[i] = "running"
    /\ MoreAttempts(attempt[i])
    /\ attempt' = [attempt EXCEPT ![i] = @ + 1]
    /\ UNCHANGED <<texts, batch_size, concurrency, epc, batches, batch_results,
                   bpc, resp, fut, yielded, final_embeddings>>
    /\ UNCHANGED <<inverted, notEmbed>>

\* _call_api_single_batch: an attempt whose answer has a 'data' field: the
\* vectors are sorted, padded and returned.
AttemptReturns(i) ==
    /\ bpc[i] = "running"
    /\ MoreAttempts(attempt[i])
    /\ attempt' = [attempt EXCEPT ![i] = @ + 1]
    /\ \E S \in Answers(Len(batches[i])), descending \in BOOLEAN :
        /\ resp' = [resp EXCEPT ![i] = Kind(S, Len(batches[i]))]
        /\ fut' = [fut EXCEPT ![i] =
                      BatchVectors(batches[i], Data(batches[i], S, descending))]
    /\ bpc' = [bpc EXCEPT ![i] = "returned"]
    /\ UNCHANGED <<texts, batch_size, concurrency, epc, batches, batch_results,
                   yielded, final_embeddings>>
    /\ UNCHANGED <<inverted, notEmbed>>

\* _call_api_single_batch: the loop is over: raise RuntimeError.
AttemptsExhausted(i) ==
    /\ bpc[i] = "running"
    /\ ~MoreAttempts(attempt[i])
    /\ bpc' = [bpc EXCEPT ![i] = "raised"]
    /\ UNCHANGED <<texts, batch_size, concurrency, epc, batches, batch_results,
                   attempt, resp, fut, yielded, final_embeddings>>
    /\ UNCHANGED <<inverted, notEmbed>>

\* Where the vectors of the future of batch i are stored.
\* (variant: at the next free place, in the order of completion)
SlotInCompletionOrder(i) == Cardinality({j \in BatchIds : yielded[j]}) + 1
Slot(i) == i

\* The as_completed loop hands out a finished future: its vectors are stored
\* at the batch's index, or its exception is raised again.
\* (variant: a failed batch counts as a batch of no vectors)
CollectSwallowing(i) ==
    /\ epc = "collect"
    /\ bpc[i] \in {"returned", "raised"}
    /\ ~yielded[i]
    /\ yielded' = [yielded EXCEPT ![i] = TRUE]
    /\ inverted' = (inverted \/ \E j \in BatchIds : j < i /\ ~yielded[j])
    /\ batch_results' = [batch_results EXCEPT ![Slot(i)] =
                    IF bpc[i] = "returned" THEN Vectors(fut[i]) ELSE Vectors(<<>>)]
    /\ UNCHANGED <<texts, batch_size, concurrency, epc, batches, bpc, attempt,
                   resp, fut, final_embeddings>>
    /\ UNCHANGED notEmbed
Collect(i) ==
    /\ epc = "collect"
    /\ bpc[i] \in {"returned", "raised"}
    /\ ~yielded[i]
    /\ yielded' = [yielded EXCEPT ![i] = TRUE]
    /\ inverted' = (inverted \/ \E j \in BatchIds : j < i /\ ~yielded[j])
    /\ IF bpc[i] = "returned"
       THEN /\ batch_results' = [batch_results EXCEPT ![Slot(i)] = Vectors(fut[i])]
            /\ UNCHANGED epc
       ELSE /\ epc' = "raising"
            /\ UNCHANGED batch_results
    /\ UNCHANGED <<texts, batch_size, concurrency, batches, bpc, attempt, resp,
                   fut, final_embeddings>>
    /\ UNCHANGED notEmbed

\* final_embeddings.extend(res) for res in batch_results
RECURSIVE Flattened(_)
Flattened(rs) ==
    IF rs = <<>> THEN <<>>
    ELSE rs[1].vectors \o Flattened(Tail(rs))

\* The executor is left with every future handed out; the results are
\* flattened in the order of the batches and returned, unless one is None.
Flatten ==
    /\ epc = "collect"
    /\ \A i \in BatchIds : yielded[i]
    /\ IF \E k \in 1..Len(batch_results) : batch_results[k].isNone
       THEN /\ epc' = "raised"
            /\ UNCHANGED final_embeddings
       ELSE /\ final_embeddings' = Flattened(batch_results)
            /\ epc' = "returned"
    /\ UNCHANGED <<texts, batch_size, concurrency, batches, batch_results, bpc,
                   attempt, resp, fut, yielded>>
    /\ UNCHANGED <<inverted, notEmbed>>

\* The exception leaves the with block once the executor has shut down, which
\* waits for every submitted batch.
Propagate ==
    /\ epc = "raising"
    /\ \A i \in BatchIds : bpc[i] \in {"returned", "raised"}
    /\ epc' = "raised"
    /\ UNCHANGED <<texts, batch_size, concurrency, batches, batch_results, bpc,
                   attempt, resp, fut, yielded, final_embeddings>>
    /\ UNCHANGED <<inverted, notEmbed>>

NextEmbed ==
    \/ Submit
    \/ \E i \in BatchIds : StartBatch(i)
    \/ \E i \in BatchIds : AttemptFails(i)
    \/ \E i \in BatchIds : AttemptReturns(i)
    \/ \E i \in BatchIds : AttemptsExhausted(i)
    \/ \E i \in BatchIds : Collect(i)
    \/ Flatten
    \/ Propagate

\* The manager while another component is checked.
IdleGpu ==
    /\ enabled = FALSE
    /\ cuda_available = FALSE
    /\ max_capacity = 1
    /\ min_capacity = 1
    /\ step_size = 1
    /\ current_capacity = 1
    /\ semaphore = 1
    /\ lock = {}
    /\ withdrawn = 0
    /\ shrinks = 0
    /\ pc = [t \in Threads |-> "idle"]
    /\ todo = [t \in Threads |-> 0]
    /\ outcome = [t \in Threads |-> "none"]
    /\ invoked = [t \in Threads |-> 0]

\* ----------------------------------------------------------------- main

\* A cell of the output column: the text and what it was made from.
EmptyText == [text |-> "", of |-> 0]
StaleText == [text |-> "stale", of |-> 0]
Answer(q) == [text |-> "answer", of |-> q]
ErrorText(m) == [text |-> "Error: ", of |-> m]

\* pd.isna(question) or str(question).strip() == "": question 0 stands for
\* the blank ones.
IsBlank(q) == q = 0

\* How retrieve + generate can end: with the answer, or raising with message m.
Handled == {[raised |-> FALSE, msg |-> 0]} \cup
           {[raised |-> TRUE, msg |-> m] : m \in 1..MaxMessages}
Skipped == [raised |-> FALSE, msg |-> -1]
NotYet == [raised |-> FALSE, msg |-> -2]

\* What the future of a call holds: the returned (index, answer), or the
\* exception that left the call.
Returned(index, answer) == [raised |-> FALSE, index |-> index, answer |-> answer]
Raised(index) == [raised |-> TRUE, index |-> index, answer |-> EmptyText]

\* process_single_case(index, question), the handler ending as h.
\* (variant: without the except clause)
ProcessSingleCaseNoExcept(index, question, h) ==
    IF IsBlank(question) THEN Returned(index, EmptyText)
    ELSE IF h.raised THEN Raised(index)
    ELSE Returned(index, Answer(question))
ProcessSingleCase(index, question, h) ==
    IF IsBlank(question) THEN Returned(index, EmptyText)
    ELSE IF h.raised THEN Returned(index, ErrorText(h.msg))
    ELSE Returned(index, Answer(question))

TaskIds == 1..Len(tasks)

\* The state when main reaches the fan-out: the questions read, the output
\* column empty if it was created, or with what the sheet had in it.
InitMain ==
    /\ \E n \in 0..MaxQuestions :
        /\ tasks \in [1..n -> {0} \cup 1..n]
        /\ \A k \in 1..n : tasks[k] \in {0, k}
        /\ \E cell \in {EmptyText, StaleText} : df_out = [k \in 1..n |-> cell]
        /\ tpc = [k \in 1..n |-> "unsubmitted"]
        /\ handled = [k \in 1..n |-> NotYet]
        /\ future = [k \in 1..n |-> Raised(k)]
        /\ collected = [k \in 1..n |-> FALSE]
    /\ max_workers \in 1..MaxWorkers
    /\ mpc = "start"
    /\ results_buffer = <<>>
    /\ wb = 0

\* main while another component is checked.
IdleMain ==
    /\ tasks = <<>>
    /\ max_workers = 1
    /\ df_out = <<>>
    /\ mpc = "start"
    /\ tpc = <<>>
    /\ handled = <<>>
    /\ future = <<>>
    /\ collected = <<>>
    /\ results_buffer = <<>>
    /\ wb = 0

\* executor.submit(process_single_case, idx, q) for every task.
SubmitAll ==
    /\ mpc = "start"
    /\ tpc' = [k \in TaskIds |-> "pending"]
    /\ mpc' = "collect"
    /\ UNCHANGED <<tasks, max_workers, df_out, handled, future, collected,
                   results_buffer, wb>>
    /\ UNCHANGED notMain

\* ThreadPoolExecutor(max_workers=concurrency): may a worker take a task.
\* (variant: one worker fewer)
PoolHasRoomOneLess(busy) == busy < max_workers - 1
PoolHasRoom(busy) == busy < max_workers

\* A worker of the executor takes the oldest pending task.
StartTask(i) ==
    /\ tpc[i] = "pending"
    /\ \A j \in TaskIds : j < i => tpc[j] # "pending"
    /\ PoolHasRoom(Cardinality({j \in TaskIds : tpc[j] = "running"}))
    /\ tpc' = [tpc EXCEPT ![i] = "running"]
    /\ UNCHANGED <<tasks, max_workers, df_out, mpc, handled, future, collected,
                   results_buffer, wb>>
    /\ UNCHANGED notMain

\* process_single_case ends: the future gets what it returned or raised.
FinishTask(i) ==
    /\ tpc[i] = "running"
    /\ \E h \in (IF IsBlank(tasks[i]) THEN {Skipped} ELSE Handled) :
        /\ handled' = [handled EXCEPT ![i] = h]
        /\ future' = [future EXCEPT ![i] = ProcessSingleCase(i, tasks[i], h)]
    /\ tpc' = [tpc EXCEPT ![i] = "finished"]
    /\ UNCHANGED <<tasks, max_workers, df_out, mpc, collected, results_buffer,
                   wb>>
    /\ UNCHANGED notMain

\* The key under which the answer of the future of task i is stored.
\* (variant: the count of completions)
KeyByCompletion(i) == Len(results_buffer) + 1
Key(i) == future[i].index

\* d[k] = v on a dict given as its items in insertion order.
DictSet(d, k, v) ==
    IF \E p \in 1..Len(d) : d[p][1] = k
    THEN [p \in 1..Len(d) |-> IF d[p][1] = k THEN <<k, v>> ELSE d[p]]
    ELSE Append(d, <<k, v>>)

\* The as_completed loop hands out a finished future: future.result() gives
\* (idx, answer), stored as results_buffer[idx], or raises what the call raised.
CollectTask(i) ==
    /\ mpc = "collect"
    /\ tpc[i] = "finished"
    /\ ~collected[i]
    /\ collected' = [collected EXCEPT ![i] = TRUE]
    /\ IF future[i].raised
       THEN /\ mpc' = "aborted"
            /\ UNCHANGED results_buffer
       ELSE /\ results_buffer' = DictSet(results_buffer, Key(i), future[i].answer)
            /\ UNCHANGED mpc
    /\ UNCHANGED <<tasks, max_workers, df_out, tpc, handled, future, wb>>
    /\ UNCHANGED notMain

\* The with block is left: every future was handed out and every worker joined.
\* (variant: the block is left without waiting)
JoinEarly ==
    /\ mpc = "collect"
    /\ mpc' = "writeback"
    /\ UNCHANGED <<tasks, max_workers, df_out, tpc, handled, future, collected,
                   results_buffer, wb>>
    /\ UNCHANGED notMain
Join ==
    /\ mpc = "collect"
    /\ \A i \in TaskIds : collected[i]
    /\ mpc' = "writeback"
    /\ UNCHANGED <<tasks, max_workers, df_out, tpc, handled, future, collected,
                   results_buffer, wb>>
    /\ UNCHANGED notMain

\* The row of the DataFrame that the item at position p of the dict goes to.
Row(p) == results_buffer[p][1]

\* df.at[idx, output_col_name] = answer for the next item of results_buffer.
WriteBack ==
    /\ mpc = "writeback"
    /\ wb < Len(results_buffer)
    /\ df_out' = [df_out EXCEPT ![Row(wb + 1)] = results_buffer[wb + 1][2]]
    /\ wb' = wb + 1
    /\ UNCHANGED <<tasks, max_workers, mpc, tpc, handled, future, collected,
                   results_buffer>>
    /\ UNCHANGED notMain

\* The loop over results_buffer is over: the results are saved.
Save ==
    /\ mpc = "writeback"
    /\ wb = Len(results_buffer)
    /\ mpc' = "done"
    /\ UNCHANGED <<tasks, max_workers, df_out, tpc, handled, future, collected,
                   results_buffer, wb>>
    /\ UNCHANGED notMain

Next ==
    \/ SubmitAll
    \/ \E i \in TaskIds : StartTask(i)
    \/ \E i \in TaskIds : FinishTask(i)
    \/ \E i \in TaskIds : CollectTask(i)
    \/ Join
    \/ WriteBack
    \/ Save

Init == InitMain /\ IdleGpu /\ IdleEmbed

Spec == Init /\ [][Next]_vars

\* Some thread that can go on does: a handler that was started returns or
\* raises, a free worker takes the next task, and the main thread goes on.
FairMain == WF_vars(Next)

SpecFair == Init /\ [][Next]_vars /\ FairMain

InitEmbedOnly == InitEmbed /\ IdleGpu /\ IdleMain

SpecEmbed == InitEmbedOnly /\ [][NextEmbed]_vars

\* Some thread that can go on does: requests.post has a timeout and the loop
\* of attempts is bounded, so every attempt ends, and a free worker takes the
\* next batch of the queue.
FairEmbed == WF_vars(NextEmbed)

SpecEmbedFair == InitEmbedOnly /\ [][NextEmbed]_vars /\ FairEmbed

NextGpu ==
    \E t \in Threads :
        \/ Call(t)
        \/ Direct(t)
        \/ Acquire(t)
        \/ RunFunc(t)
        \/ ShrinkLock(t)
        \/ ShrinkCheck(t)
        \/ ShrinkWithdraw(t)
        \/ ShrinkExit(t)
        \/ Sleep(t)
        \/ FinallyContinue(t)
        \/ FinallyReturn(t)
        \/ FinallyRaise(t)
        \/ NextCall(t)

InitGpuOnly == InitGpu /\ IdleEmbed /\ IdleMain

SpecGpu == InitGpuOnly /\ [][NextGpu]_vars

\* The steps of thread t while it holds a permit that wait for nothing.
HolderStep(t) ==
    \/ RunFunc(t)
    \/ ShrinkCheck(t)
    \/ ShrinkWithdraw(t)
    \/ ShrinkExit(t)
    \/ Sleep(t)
    \/ FinallyContinue(t)
    \/ FinallyReturn(t)
    \/ FinallyRaise(t)

\* Every holder goes on to the end of its attempt, and a thread waiting for
\* the lock or for a permit is not passed over for ever when the lock is free,
\* or a permit available, again and again.
FairGpu ==
    \A t \in Threads :
        /\ WF_vars(HolderStep(t))
        /\ SF_vars(ShrinkLock(t))
        /\ SF_vars(Acquire(t))

SpecGpuFair == InitGpuOnly /\ [][NextGpu]_vars /\ FairGpu

\* ------------------------------------------------- GpuAdaptiveManager claims

\* The positions of a thread inside _shrink_capacity.
ShrinkPcs == {"shrink_lock", "shrink_check", "shrink_loop"}

\* The positions of a protected call between an attempt that ran out of
\* memory and the end of the next attempt.
RetryPcs == ShrinkPcs \cup {"sleep", "finally_continue", "acquire", "run"}

\* C5: in every reachable state the permits held by in-flight operations, the
\* permits available in the semaphore and the permits withdrawn by shrinks add
\* up to max_capacity.
C5_PermitAccounting == Held + semaphore + withdrawn = max_capacity

\* A state with a holder, an available permit and a withdrawn permit at once.
C5_Witness == Held > 0 /\ semaphore > 0 /\ withdrawn > 0

\* C6: whenever no shrink is in progress, the permits held plus the permits
\* available equal current_capacity (every shrink removes from circulation
\* exactly the permits it lowered the capacity by, also when a non-blocking
\* withdrawal found no permit).
C6_CirculationIsCapacity ==
    (\A t \in Threads : pc[t] \notin ShrinkPcs)
        => Held + semaphore = current_capacity

\* C7: min_capacity <= current_capacity <= max_capacity in every reachable
\* state; no shrink takes current_capacity below min_capacity.
C7_CapacityBounds ==
    /\ min_capacity <= current_capacity
    /\ current_capacity <= max_capacity

\* A shrink has brought the capacity down to the floor.
C7_Witness ==
    /\ current_capacity = min_capacity
    /\ current_capacity < max_capacity

\* C8: under protection a call never ends with the out-of-memory error: it ends
\* only after an attempt that returned or raised another error, and an attempt
\* that ran out of memory is followed by the shrink, the cool-down and the next
\* attempt, however many attempts there were and also at the floor.
C8_OomNeverSurfaced ==
    ~Unprotected =>
        \A t \in Threads :
            /\ pc[t] = "done" => outcome[t] \in {"ok", "other"}
            /\ outcome[t] = "oom" => pc[t] \in RetryPcs

\* A call at the floor that is about to retry after MaxInvoked or more attempts,
\* the latest of which ran out of memory.
C8_Witness ==
    /\ ~Unprotected
    /\ current_capacity = min_capacity
    /\ \E t \in Threads :
        /\ pc[t] = "run"
        /\ outcome[t] = "oom"
        /\ invoked[t] = MaxInvoked

\* C9: an attempt that raised an error other than out-of-memory ends the call:
\* from there the thread only releases its permit and hands the error to the
\* caller, with no further func() invocation and no change of the capacity.
C9_OtherErrorStep(t) ==
    /\ outcome'[t] = "other" => pc'[t] \in {"finally_raise", "done"}
    /\ (pc[t] = "finally_raise" /\ pc'[t] # "finally_raise") =>
            /\ pc'[t] = "done"
            /\ outcome'[t] = "other"
            /\ invoked'[t] = invoked[t]
            /\ semaphore' = semaphore + 1
            /\ current_capacity' = current_capacity
            /\ withdrawn' = withdrawn

\* C9, as a property of every step.
C9_OtherErrorPropagates == [][\A t \in Threads : C9_OtherErrorStep(t)]_vars

\* A protected call has ended with the other error after a single attempt.
C9_Witness ==
    /\ ~Unprotected
    /\ \E t \in Threads :
        /\ pc[t] = "done"
        /\ outcome[t] = "other"
        /\ invoked[t] = 1

\* C13: with the flag off or no GPU, a call invokes func exactly once and ends
\* with what func returned or raised (the out-of-memory error included); no
\* permit is taken or given back, no shrink is made, no attempt is repeated, and
\* the semaphore and current_capacity stay as configured.
C13_DisabledIsDirect ==
    (~enabled \/ ~cuda_available) =>
        /\ semaphore = max_capacity
        /\ current_capacity = max_capacity
        /\ withdrawn = 0
        /\ shrinks = 0
        /\ lock = {}
        /\ \A t \in Threads :
            /\ pc[t] \in {"idle", "direct", "done"}
            /\ pc[t] \in {"idle", "direct"} =>
                    (invoked[t] = 0 /\ outcome[t] = "none")
            /\ pc[t] = "done" => (invoked[t] = 1 /\ outcome[t] \in Outcomes)

\* With the flag on and no GPU, a call has ended with the out-of-memory error
\* of its only invocation.
C13_Witness ==
    /\ enabled
    /\ ~cuda_available
    /\ \E t \in Threads :
        /\ pc[t] = "done"
        /\ outcome[t] = "oom"
        /\ invoked[t] = 1

\* C14: an attempt enters func only from the acquire, which takes one permit;
\* a thread stops holding only through the finally clause, which gives one
\* permit back, on each of its three ways out (return, continue, raise); a
\* thread whose call has ended, or has not begun, holds none; and no more than
\* max_capacity threads are inside func under protection at one time.
C14_State ==
    /\ Cardinality({t \in Threads : pc[t] = "run"}) <= max_capacity
    /\ Held <= max_capacity - semaphore
    /\ semaphore >= 0

C14_Step(t) ==
    /\ (pc'[t] = "run" /\ pc[t] # "run") =>
            /\ pc[t] = "acquire"
            /\ semaphore' = semaphore - 1
    /\ (pc[t] \in HoldingPcs /\ pc'[t] \notin HoldingPcs) =>
            /\ pc[t] \in {"finally_continue", "finally_return", "finally_raise"}
            /\ semaphore' = semaphore + 1
    /\ (pc[t] \notin HoldingPcs /\ pc'[t] \in HoldingPcs) => pc'[t] = "run"
    /\ pc'[t] = "done" => pc[t] \in {"done", "direct", "finally_return",
                                     "finally_raise"}

\* C14: the state part in every state, the step part in every step.
C14_PermitDiscipline ==
    [](C14_State) /\ [][\A t \in Threads : C14_Step(t)]_vars

\* With a single permit, one thread is inside func and the other waits for the
\* permit after an attempt of its own that ran out of memory.
C14_Witness ==
    /\ ~Unprotected
    /\ max_capacity = 1
    /\ \E t, u \in Threads :
        /\ pc[t] = "run"
        /\ pc[u] = "acquire"
        /\ outcome[u] = "oom"

\* C15: after k calls of _shrink_capacity current_capacity is
\* max(min_capacity, max_capacity - k * step_size): each call above the floor
\* lowers it by step_size or to the floor, and no call raises it.
C15_ShrinkStep ==
    current_capacity = Max(min_capacity, max_capacity - shrinks * step_size)

\* Shrinks went on after the floor cut a step short: the capacity is at the
\* floor, and fewer permits above it than the calls would have taken.
C15_Witness ==
    /\ current_capacity = min_capacity
    /\ min_capacity < max_capacity
    /\ shrinks >= 2
    /\ max_capacity - shrinks * step_size < min_capacity

\* C16: a call of _shrink_capacity that finds current_capacity at min_capacity
\* returns and leaves current_capacity, the semaphore and the withdrawn permits
\* as they were, every time it is made.
C16_Step(t) ==
    (/\ pc[t] = "shrink_check"
     /\ pc'[t] # "shrink_check"
     /\ current_capacity = min_capacity) =>
        /\ pc'[t] = "sleep"
        /\ lock' = {}
        /\ current_capacity' = current_capacity
        /\ semaphore' = semaphore
        /\ withdrawn' = withdrawn
        /\ todo'[t] = 0

C16_FloorNoOp == [][\A t \in Threads : C16_Step(t)]_vars

\* Two or more calls were made at the floor, with no shrink before them, and
\* the latest has returned.
C16_Witness ==
    /\ min_capacity = max_capacity
    /\ current_capacity = min_capacity
    /\ shrinks >= 2
    /\ semaphore + Held = max_capacity
    /\ \E t \in Threads : pc[t] = "sleep"

\* C17: at most one thread is inside the with block of _shrink_capacity, and it
\* is the owner of the lock; a call lowers current_capacity by at most
\* step_size and takes at most that many permits, none of them beyond what it
\* lowered; and with no call inside the block current_capacity is what the
\* same number of calls gives one after another. (One call is made for each
\* attempt that ran out of memory.)
C17_State ==
    /\ lock = {t \in Threads : pc[t] \in {"shrink_check", "shrink_loop"}}
    /\ Cardinality(lock) <= 1
    /\ \A t \in Threads : todo[t] \in 0..step_size
    /\ \A t \in Threads : pc[t] # "shrink_loop" => todo[t] = 0
    /\ withdrawn <= max_capacity - current_capacity
    /\ lock = {} =>
        current_capacity = Max(min_capacity, max_capacity - shrinks * step_size)

C17_Step(t) ==
    /\ current_capacity - current_capacity' \in 0..step_size
    /\ withdrawn' - withdrawn \in 0..1
    /\ withdrawn' # withdrawn => \E u \in Threads : todo'[u] = todo[u] - 1
    /\ (pc[t] = "shrink_check" /\ pc'[t] = "shrink_loop") =>
            todo'[t] = current_capacity - current_capacity'

\* C17: the state part in every state, the step part in every step.
C17_ShrinksSerialized ==
    [](C17_State) /\ [][\A t \in Threads : C17_Step(t)]_vars

\* One thread is inside the with block, having taken a permit, while another
\* waits for the lock.
C17_Witness ==
    \E t, u \in Threads :
        /\ pc[t] = "shrink_loop"
        /\ pc[u] = "shrink_lock"
        /\ withdrawn > 0

\* C18: a thread inside the with block of _shrink_capacity always has a step to
\* take, also when the semaphore has no permit left: the withdrawal comes back
\* at once with or without a permit. The lock is owned only by a thread inside
\* the block, so a thread waiting for the lock waits for a thread that can go
\* on, and no thread inside _shrink_capacity waits for a permit.
C18_ShrinkNeverBlocks ==
    /\ \A t \in Threads :
        /\ pc[t] = "shrink_check" => ENABLED ShrinkCheck(t)
        /\ pc[t] = "shrink_loop" =>
                (ENABLED ShrinkWithdraw(t) \/ ENABLED ShrinkExit(t))
        /\ pc[t] = "shrink_lock" =>
                \/ ENABLED ShrinkLock(t)
                \/ \E u \in lock : pc[u] \in {"shrink_check", "shrink_loop"}
    /\ \A u \in lock : pc[u] \in {"shrink_check", "shrink_loop"}

\* A shrink is over whose withdrawal found no permit: every permit in
\* circulation is held, and fewer were withdrawn than the capacity went down by.
C18_Witness ==
    /\ semaphore = 0
    /\ withdrawn < max_capacity - current_capacity
    /\ lock = {}
    /\ \E t \in Threads : pc[t] = "sleep"

\* C22: the permits withdrawn are never more than the capacity was lowered by,
\* so the permits held and available together are never fewer than
\* current_capacity, which is never below min_capacity >= 1: at least one
\* permit is always in circulation. A thread waiting for a permit gets one in
\* the end, when every holder goes on to the end of its attempt.
C22_State ==
    /\ withdrawn <= max_capacity - current_capacity
    /\ Held + semaphore >= current_capacity
    /\ current_capacity >= min_capacity
    /\ min_capacity >= 1
    /\ Held + semaphore >= 1

C22_Admitted == \A t \in Threads : (pc[t] = "acquire") ~> (pc[t] = "run")

CoolingPcs == ShrinkPcs \cup {"sleep", "finally_continue"}

\* C23: an attempt that ran out of memory goes through _shrink_capacity and
\* the cool-down with its permit: the permit is in neither the semaphore nor
\* the withdrawn ones, a withdrawal takes a permit that was available and
\* leaves the holders as they were, and the permit is given back only by the
\* finally clause after the cool-down, from where the thread goes straight to
\* the acquire of the next attempt.
C23_State ==
    /\ \A t \in Threads : pc[t] \in CoolingPcs => outcome[t] = "oom"
    /\ semaphore + withdrawn + Cardinality({t \in Threads : pc[t] \in CoolingPcs})
            <= max_capacity

C23_Step(t) ==
    /\ (pc[t] = "run" /\ pc'[t] # "run" /\ outcome'[t] = "oom") =>
            /\ pc'[t] = "shrink_lock"
            /\ semaphore' = semaphore
    /\ (pc[t] \in ShrinkPcs \cup {"sleep"} /\ pc'[t] # pc[t]) =>
            /\ pc'[t] \in CoolingPcs
            /\ semaphore' = semaphore
    /\ (pc[t] = "shrink_loop" /\ todo'[t] # todo[t]) =>
            /\ pc'[t] = "shrink_loop"
            /\ withdrawn' - withdrawn = semaphore - semaphore'
            /\ semaphore' >= 0
            /\ semaphore' = semaphore \/ semaphore > 0
    /\ (pc[t] = "finally_continue" /\ pc'[t] # "finally_continue") =>
            /\ pc'[t] = "acquire"
            /\ semaphore' = semaphore + 1
    /\ semaphore' > semaphore =>
            \E u \in Threads :
                /\ pc[u] \in {"finally_continue", "finally_return", "finally_raise"}
                /\ pc'[u] \notin HoldingPcs

\* C23: the state part in every state, the step part in every step.
C23_PermitKeptInCoolDown ==
    [](C23_State) /\ [][\A t \in Threads : C23_Step(t)]_vars

\* A thread is in its cool-down after its shrink withdrew the last available
\* permit, and the other thread waits for the permit it still holds.
C23_Witness ==
    /\ semaphore = 0
    /\ current_capacity < max_capacity
    /\ withdrawn > 0
    /\ Held = 1
    /\ \E t, u \in Threads :
        /\ pc[t] = "sleep"
        /\ outcome[t] = "oom"
        /\ pc[u] = "acquire"

\* ----------------------------------------------------- CNAIEmbeddings claims

\* [f(x) for x in texts]
Expected == [k \in 1..Len(texts) |-> F(texts[k])]

\* C2: when every batch got an aligned answer, embed_documents returns
\* [f(x0), ..., f(xN-1)] in input order, whatever the batch size, the
\* concurrency and the order in which the batches completed.
C2_OrderPreserved ==
    (epc = "returned" /\ \A i \in BatchIds : resp[i] = "aligned")
        => final_embeddings = Expected

\* A run of two or more aligned batches has returned after a later batch was
\* collected before an earlier one.
C2_Witness ==
    /\ epc = "returned"
    /\ \A i \in BatchIds : resp[i] = "aligned"
    /\ Len(batches) >= 2
    /\ inverted

\* C3: whenever embed_documents returns a list, it is as long as the input
\* list, for every behaviour of the producer.
C3_LengthPreserved ==
    epc = "returned" => Len(final_embeddings) = Len(texts)

\* C10: a batch call raises only after exactly max_retries producer calls, none
\* of which gave data; it returns on the attempt (the first to max_retries-th)
\* that gave data; and once it has returned or raised no further producer call
\* is made for it.
C10_State ==
    \A i \in BatchIds :
        /\ attempt[i] <= max_retries
        /\ bpc[i] = "raised" => (attempt[i] = max_retries /\ resp[i] = "none")
        /\ bpc[i] = "returned" => (attempt[i] >= 1 /\ resp[i] # "none")

C10_Step ==
    \A i \in BatchIds :
        bpc[i] \in {"returned", "raised"} =>
            /\ attempt'[i] = attempt[i]
            /\ bpc'[i] = bpc[i]
            /\ fut'[i] = fut[i]

\* C10: the state part in every state, the step part in every step.
C10_ExactlyMaxRetries == [](C10_State) /\ [][C10_Step]_vars

\* A batch call has raised, and another has returned on its last attempt.
C10_Witness ==
    \E i, j \in BatchIds :
        /\ bpc[i] = "raised"
        /\ attempt[i] = max_retries
        /\ bpc[j] = "returned"
        /\ attempt[j] = max_retries

\* C11: when a batch call has raised, embed_documents raises too: it does not
\* return, and no list of vectors is handed out, however many other batches
\* returned and in whatever order the futures were handed out. It returns only
\* when every batch call returned.
C11_FailClosed ==
    /\ (\E i \in BatchIds : bpc[i] = "raised") =>
            /\ epc # "returned"
            /\ final_embeddings = <<>>
    /\ epc = "returned" => \A i \in BatchIds : bpc[i] = "returned"
    /\ epc = "raised" => final_embeddings = <<>>

\* embed_documents has raised for a batch that failed after an earlier-handed
\* future of a later batch gave its vectors.
C11_Witness ==
    /\ epc = "raised"
    /\ \E i, j \in BatchIds :
        /\ i < j
        /\ bpc[i] = "raised"
        /\ bpc[j] = "returned"
        /\ yielded[j]
        /\ ~batch_results[j].isNone
        /\ Len(batch_results[j].vectors) > 0

\* C12: a batch call whose answer has fewer items than the batch has texts
\* (none at all included) returns on that attempt: the vectors received, in
\* the order of their index, then zero vectors, as many vectors as texts. The
\* zero vectors have the length of the first vector received, or DefaultDim
\* when none was received.
C12_ShortIsPadded ==
    \A i \in BatchIds :
        resp[i] = "short" =>
            /\ bpc[i] = "returned"
            /\ attempt[i] \in 1..max_retries
            /\ Len(fut[i]) = Len(batches[i])
            /\ \E k \in 0..(Len(batches[i]) - 1) :
                \A p \in 1..Len(batches[i]) :
                    fut[i][p] = IF p <= k THEN F(batches[i][p])
                                ELSE IF k > 0 THEN ZeroVector(ApiDim)
                                ELSE ZeroVector(DefaultDim)

\* A batch of two texts got one vector and one zero vector, and a batch of one
\* text got no item and one zero vector of DefaultDim.
C12_Witness ==
    \E i, j \in BatchIds :
        /\ resp[i] = "short"
        /\ Len(batches[i]) = 2
        /\ fut[i] = <<F(batches[i][1]), ZeroVector(ApiDim)>>
        /\ resp[j] = "short"
        /\ fut[j] = <<ZeroVector(DefaultDim)>>

\* C20: once the batches are made there are ceil(N / batch_size) of them; the
\* p-th text of batch i is the text at position (i - 1) * batch_size + p of the
\* input; every batch has from 1 to batch_size texts and every batch but the
\* last has batch_size; every text of the input is in exactly one place of one
\* batch. With no text there is no batch, so no producer call, and the list
\* returned is empty.
C20_Partition ==
    epc # "start" =>
        /\ Len(batches) * batch_size >= Len(texts)
        /\ (Len(batches) - 1) * batch_size < Len(texts)
        /\ \A i \in BatchIds :
            /\ Len(batches[i]) \in 1..batch_size
            /\ i < Len(batches) => Len(batches[i]) = batch_size
            /\ \A q \in 1..Len(batches[i]) :
                /\ (i - 1) * batch_size + q <= Len(texts)
                /\ batches[i][q] = texts[(i - 1) * batch_size + q]
        /\ \A k \in 1..Len(texts) :
            Cardinality({ij \in BatchIds \X (1..batch_size) :
                            /\ ij[2] <= Len(batches[ij[1]])
                            /\ batches[ij[1]][ij[2]] = texts[k]}) = 1
        /\ Len(texts) = 0 =>
            /\ batches = <<>>
            /\ attempt = <<>>
            /\ epc \in {"collect", "returned"}
            /\ final_embeddings = <<>>

\* Three texts were split by two: a full batch and a batch of the one text
\* left, both answered.
C20_Witness ==
    /\ Len(texts) = 3
    /\ batch_size = 2
    /\ Len(batches) = 2
    /\ Len(batches[2]) = 1
    /\ epc = "returned"

\* C21: at no time are more batch calls running (from the first request of a
\* batch to its return or raise, retries and waits between them included) than
\* concurrency, and every batch submitted is taken by a worker in the end, also
\* after another batch has raised.
C21_State == Cardinality(Running) <= concurrency

C21_Dispatched == epc # "start" /\ \A i \in BatchIds : bpc[i] # "pending"

C21_ConcurrencyBound == [](C21_State) /\ <>C21_Dispatched

\* The workers are all busy while a batch waits in the queue and the caller
\* is already raising the error of a batch.
C21_Witness ==
    /\ Cardinality(Running) = concurrency
    /\ \E i \in BatchIds : bpc[i] = "pending"
    /\ epc = "raising"

\* ------------------------------------------------------------- main claims

\* C1: after the pool has joined and the results are written back, the cell at
\* every index holds the answer that was computed for the question at that
\* index, whatever the order in which the workers completed.
C1_OutputOrder ==
    mpc = "done" =>
        \A i \in TaskIds :
            /\ ~future[i].raised
            /\ df_out[i] = future[i].answer

\* A run with two or more workers is done in which the first future handed out
\* was that of a later question than the second, both with real questions.
C1_Witness ==
    /\ mpc = "done"
    /\ max_workers >= 2
    /\ Len(results_buffer) >= 2
    /\ results_buffer[1][1] > results_buffer[2][1]
    /\ \A p \in 1..2 : results_buffer[p][2].text = "answer"

\* C4: a handler that raises for one index gives that index the text
\* "Error: <message>"; the run is not aborted, and every other index gets what
\* its own handler returned (the empty text for a blank question).
C4_FailureIsolated ==
    /\ mpc # "aborted"
    /\ mpc = "done" =>
        \A i \in TaskIds :
            df_out[i] = IF handled[i].raised THEN ErrorText(handled[i].msg)
                        ELSE IF IsBlank(tasks[i]) THEN EmptyText
                        ELSE Answer(tasks[i])

\* A run is done in which one handler raised and another returned its answer.
C4_Witness ==
    /\ mpc = "done"
    /\ \E i, j \in TaskIds :
        /\ handled[i].raised
        /\ handled[j] \in Handled
        /\ ~handled[j].raised

\* The keys of the dict d.
Keys(d) == {d[p][1] : p \in 1..Len(d)}

\* C19: results_buffer is empty until the first future is handed out; every
\* change of it adds one index that was not in it, with the answer of that
\* index's future; when the with block has been left it has every index once
\* and every worker is done; and the output column changes only after that.
C19_State ==
    /\ mpc = "start" => results_buffer = <<>>
    /\ \A p, q \in 1..Len(results_buffer) :
            results_buffer[p][1] = results_buffer[q][1] => p = q
    /\ Keys(results_buffer) = {i \in TaskIds : collected[i]}
    /\ mpc \in {"writeback", "done"} =>
            /\ Keys(results_buffer) = TaskIds
            /\ Len(results_buffer) = Len(tasks)
            /\ \A i \in TaskIds : tpc[i] = "finished"
    /\ wb > 0 => mpc \in {"writeback", "done"}

C19_Step ==
    /\ results_buffer' # results_buffer =>
            \E i \in TaskIds :
                /\ i \notin Keys(results_buffer)
                /\ results_buffer' = Append(results_buffer, <<i, future[i].answer>>)
    /\ df_out' # df_out =>
            /\ mpc = "writeback"
            /\ \A i \in TaskIds : tpc[i] = "finished" /\ collected[i]
    /\ mpc = "writeback" => results_buffer' = results_buffer

\* C19: the state part in every state, the step part in every step.
C19_WriteOncePerIndex == [](C19_State) /\ [][C19_Step]_vars

\* The write-back has begun for three questions whose futures were handed out
\* in another order than they were submitted.
C19_Witness ==
    /\ mpc = "writeback"
    /\ wb >= 1
    /\ Len(tasks) = 3
    /\ results_buffer[1][1] = 3
    /\ df_out[3] # StaleText

\* C24: whatever the handlers do (return, or raise with any message), whatever
\* the number of workers and the order of completion, no future raises in the
\* main thread, and the run ends, through the write-back, with an answer in
\* results_buffer for every index and that answer written to its row.
C24_Finished ==
    /\ mpc = "done"
    /\ Keys(results_buffer) = TaskIds
    /\ wb = Len(tasks)
    /\ \A i \in TaskIds :
        /\ tpc[i] = "finished"
        /\ ~future[i].raised
        /\ df_out[i] = future[i].answer

C24_Completion == [](mpc # "aborted") /\ <>C24_Finished

\* With a single worker the run is done for three questions, the handler of
\* each of which raised.
C24_Witness ==
    /\ mpc = "done"
    /\ max_workers = 1
    /\ Len(tasks) = 3
    /\ \A i \in TaskIds : handled[i] \in Handled /\ handled[i].raised

====
